---- MODULE Spec2Model ----
(***************************************************************************)
(* AudioToText: the job table of app/main.py (active_tasks), its request   *)
(* handlers, the background task process_transcription_task, the expiry    *)
(* sweep cleanup_old_tasks, and the stages of                              *)
(* AudioTranscriber.transcribe_audio of app/transcribe.py (Spec, FairSpec);*)
(* the diarization, alignment and assembly inside transcribe_audio on      *)
(* segments and turns drawn from bounded sets (SpecRun); format_output on  *)
(* transcripts drawn from a bounded set (SpecFormat).                      *)
(*                                                                         *)
(* Scheduling.  Every handler and the background task are `async def`, so  *)
(* they all run on the one asyncio event loop: code between two awaits is  *)
(* never interleaved with another coroutine.  transcribe_audio is a plain  *)
(* (blocking) call made from the background task, so the loop is held from *)
(* main.py:101 to the first await at main.py:124.  The variable `loop`     *)
(* names the background task that holds the loop (0: the loop is free).    *)
(* The awaits of aiofiles run the file operation in a worker thread; the   *)
(* loop is free while it runs, so other handlers interleave there.         *)
(***************************************************************************)
EXTENDS Integers, Sequences, FiniteSets, TLC

VARIABLES
    active_tasks,   \* main.py:37   task_id -> TaskStatus
    upload_dir,     \* main.py:40   files of UPLOAD_DIR: <<task of the upload, suffix>>
    output_dir,     \* main.py:41   files of OUTPUT_DIR: <<task_id, format>>
    temp_dir,       \* transcribe.py:108  temporary .wav files, by task
    uploading,      \* upload_file coroutines suspended in save_upload_file
    bg,             \* process_transcription_task coroutines, by task_id
    downloading,    \* download_result coroutines suspended at main.py:278
    loop,           \* the background task holding the event loop, or 0
    used_ids,       \* uuid4 values already drawn
    now,            \* datetime.now(), seconds
    removed_by,     \* history: how each removed task left the table
    run,            \* one call of transcribe_audio: its inputs and locals
    rendering       \* a transcript and the last two results of format_output

vars == <<active_tasks, upload_dir, output_dir, temp_dir, uploading, bg,
          downloading, loop, used_ids, now, removed_by, run, rendering>>

----------------------------------------------------------------------------
(* Bounds *)

MaxTasks == 2          \* uuid4 values available to upload_file
MaxTicks == 2          \* advances of the clock
MaxDownloads == 1      \* download_result coroutines in flight at once

TaskIds == 1..MaxTasks

----------------------------------------------------------------------------
(* Program constants *)

MAX_FILE_SIZE == 100 * 1024 * 1024
SUPPORTED_FORMATS == {".mp3", ".wav", ".m4a", ".flac", ".ogg", ".webm"}
allowed_mimes == {"audio/mpeg", "audio/wav", "audio/x-wav", "audio/mp4",
                  "audio/m4a", "audio/flac", "audio/ogg", "audio/webm"}
supported_formats == {".mp3", ".wav", ".m4a", ".flac", ".ogg", ".webm"}
DELETE_FORMATS == <<"json", "txt", "srt">>
MAX_AGE_SECONDS == 86400

----------------------------------------------------------------------------
(* Inputs of the requests: a supported suffix in upper case and an          *)
(* unsupported one; an allowed MIME type, another one, and a failing        *)
(* detection; a size below, at and above the limit; the default output     *)
(* format and an unsupported one; every format for the queries; for the    *)
(* downloads a format no background task writes and an unsupported one;    *)
(* a second and a day for the clock.                                       *)

FileSuffixes == {".MP3", ".txt"}
MimeTypes == {"audio/mpeg", "text/plain", "error"}
FileSizes == {1024, MAX_FILE_SIZE, MAX_FILE_SIZE + 1}
OutputFormats == {"json", "xml"}
QueryFormats == {"json", "txt", "srt", "xml"}
DownloadFormats == {"srt", "xml"}
TickDeltas == {1, MAX_AGE_SECONDS}

\* Optional[T]
None == <<>>
Some(v) == <<v>>

\* str.lower() on the suffixes submitted
lower(s) == CASE s = ".MP3" -> ".mp3"
              [] OTHER -> s

----------------------------------------------------------------------------
(* Pure helpers of main.py *)

\* validate_audio_file without its suffix test
validate_mime_only(suffix, mime) ==
    IF mime = "error" THEN TRUE ELSE mime \in allowed_mimes

\* validate_audio_file: the suffix test, then the MIME test; a failing MIME
\* detection trusts the suffix.
validate_audio_file(suffix, mime) ==
    IF lower(suffix) \notin SUPPORTED_FORMATS THEN FALSE
    ELSE IF mime = "error" THEN TRUE
    ELSE mime \in allowed_mimes

\* upload_file's size test (main.py:156); UploadFile of the FastAPI that
\* pydantic's model_dump needs always has the attribute size
size_exceeds(size) == size > MAX_FILE_SIZE

\* cleanup_file that removes nothing
cleanup_file_skipped(dir, f) == dir

\* cleanup_file on a directory: unlink if the file exists
cleanup_file(dir, f) == dir \ {f}

\* TaskStatus(...) of upload_file
NewTaskStatus(task_id, created) ==
    [task_id |-> task_id, status |-> "pending", progress |-> 0,
     message |-> Some(<<"File uploaded, starting transcription...">>),
     result |-> None, error |-> None, created_at |-> created]

\* format_output raises ValueError outside json, txt, srt
format_output_supported(output_format) ==
    output_format \in {"json", "txt", "srt"}

\* the age test with >= for >
expired_inclusive(task, current_time) ==
    current_time - task.created_at >= MAX_AGE_SECONDS

\* the age test of cleanup_old_tasks
expired(task, current_time) ==
    current_time - task.created_at > MAX_AGE_SECONDS

\* the result test in place of the status test
status_not_checked(task) == task.result = None

\* the status test of get_transcription_result and download_result
not_completed(task) == task.status # "completed"

----------------------------------------------------------------------------
(* State after import of app.main: empty table, empty directories *)

Init ==
    /\ active_tasks = << >>
    /\ upload_dir = {}
    /\ output_dir = {}
    /\ temp_dir = {}
    /\ uploading = {}
    /\ bg = << >>
    /\ downloading = {}
    /\ loop = 0
    /\ used_ids = {}
    /\ now = 0
    /\ removed_by = << >>
    /\ run = << >>
    /\ rendering = << >>

\* dict helpers
has(d, k) == k \in DOMAIN d
del(d, k) == [j \in DOMAIN d \ {k} |-> d[j]]
put(d, k, v) == [j \in DOMAIN d \cup {k} |-> IF j = k THEN v ELSE d[j]]

----------------------------------------------------------------------------
(* POST /upload *)

\* main.py:155-167: the response of a submission refused before the task
\* id is drawn (413 size, 400 format), else 0
upload_file_rejection(suffix, mime, size) ==
    IF size_exceeds(size) THEN 413
    ELSE IF ~validate_audio_file(suffix, mime) THEN 400
    ELSE 0

upload_rejected(suffix, mime, size) ==
    /\ loop = 0
    /\ upload_file_rejection(suffix, mime, size) # 0
    /\ UNCHANGED vars

\* main.py:169-192: the task is stored as pending, then the coroutine
\* suspends in save_upload_file.
upload_file(task_id, suffix, mime, size, output_format) ==
    /\ loop = 0
    /\ upload_file_rejection(suffix, mime, size) = 0
    /\ task_id \notin used_ids
    /\ used_ids' = used_ids \cup {task_id}
    /\ active_tasks' = put(active_tasks, task_id, NewTaskStatus(task_id, now))
    /\ uploading' = uploading \cup
          {[task_id |-> task_id, suffix |-> lower(suffix),
            request |-> [output_format |-> output_format]]}
    /\ UNCHANGED <<run, rendering,
                   upload_dir, output_dir, temp_dir, bg, downloading, loop,
                   now, removed_by>>

\* main.py:192-206: save_upload_file returned; the background task is added
\* and the response (200, task_id) is sent.
upload_saved(u) ==
    /\ loop = 0
    /\ u \in uploading
    /\ uploading' = uploading \ {u}
    /\ upload_dir' = upload_dir \cup {<<u.task_id, u.suffix>>}
    /\ bg' = put(bg, u.task_id,
                 [pc |-> "queued", suffix |-> u.suffix, request |-> u.request,
                  exc |-> None, result |-> None])
    /\ UNCHANGED <<run, rendering,
                   active_tasks, output_dir, temp_dir, downloading, loop,
                   used_ids, now, removed_by>>

\* main.py:208-212: save_upload_file raised (at the open: no file; at the
\* write: the file stays); the task is removed if still present; 500.
upload_failed(u, file_created) ==
    /\ loop = 0
    /\ u \in uploading
    /\ uploading' = uploading \ {u}
    /\ upload_dir' = IF file_created
                     THEN upload_dir \cup {<<u.task_id, u.suffix>>}
                     ELSE upload_dir
    /\ IF has(active_tasks, u.task_id)
       THEN /\ active_tasks' = del(active_tasks, u.task_id)
            /\ removed_by' = put(removed_by, u.task_id, "upload_failed")
       ELSE UNCHANGED <<active_tasks, removed_by>>
    /\ UNCHANGED <<run, rendering,
                   output_dir, temp_dir, bg, downloading, loop, used_ids, now>>

----------------------------------------------------------------------------
(* process_transcription_task, main.py:97-135, statement by statement.     *)
(* The coroutine holds the loop except at its awaits (pc "open", "write"). *)

at(task_id, pc) == has(bg, task_id) /\ bg[task_id].pc = pc
running(task_id, pc) == at(task_id, pc) /\ loop = task_id
goto(task_id, pc) == [bg EXCEPT ![task_id].pc = pc]
ended(task_id, pc) == [bg EXCEPT ![task_id] = [pc |-> pc, suffix |-> @.suffix]]
raise(task_id, pc, msg) == [bg EXCEPT ![task_id].pc = pc, ![task_id].exc = Some(msg)]

\* main.py:101-103 markProcessing; KeyError when the task was removed
mark_processing(t) ==
    [t EXCEPT !.status = "processing", !.progress = 1,
              !.message = Some(<<"Loading transcription model...">>)]

\* the first statement storing a record where the task is missing
bg_start_reinserting(task_id) ==
    /\ at(task_id, "queued")
    /\ loop = 0
    /\ loop' = task_id
    /\ active_tasks' = put(active_tasks, task_id,
                           mark_processing(IF has(active_tasks, task_id)
                                           THEN active_tasks[task_id]
                                           ELSE NewTaskStatus(task_id, now)))
    /\ bg' = goto(task_id, "ta_validate")
    /\ UNCHANGED <<run, rendering,
                   upload_dir, output_dir, temp_dir, uploading, downloading,
                   used_ids, now, removed_by>>

\* the first statement skipped where the task is missing
bg_start_unchecked(task_id) ==
    /\ at(task_id, "queued")
    /\ loop = 0
    /\ loop' = task_id
    /\ active_tasks' = IF has(active_tasks, task_id)
                       THEN [active_tasks EXCEPT ![task_id] = mark_processing(@)]
                       ELSE active_tasks
    /\ bg' = goto(task_id, "ta_validate")
    /\ UNCHANGED <<run, rendering,
                   upload_dir, output_dir, temp_dir, uploading, downloading,
                   used_ids, now, removed_by>>

bg_start(task_id) ==
    /\ at(task_id, "queued")
    /\ loop = 0
    /\ loop' = task_id
    /\ IF has(active_tasks, task_id)
       THEN /\ active_tasks' = [active_tasks EXCEPT
                                   ![task_id] = mark_processing(@)]
            /\ bg' = goto(task_id, "ta_validate")
       ELSE /\ bg' = raise(task_id, "except", <<"KeyError">>)
            /\ UNCHANGED active_tasks
    /\ UNCHANGED <<run, rendering,
                   upload_dir, output_dir, temp_dir, uploading, downloading,
                   used_ids, now, removed_by>>

\* transcribe.py:252-257: the file exists and its suffix is supported
ta_validate(task_id) ==
    /\ running(task_id, "ta_validate")
    /\ bg' = IF <<task_id, bg[task_id].suffix>> \notin upload_dir
             THEN raise(task_id, "ta_except", <<"Audio file not found">>)
             ELSE IF bg[task_id].suffix \notin supported_formats
             THEN raise(task_id, "ta_except", <<"Unsupported file format">>)
             ELSE goto(task_id, "ta_preprocess")
    /\ UNCHANGED <<run, rendering,
                   active_tasks, upload_dir, output_dir, temp_dir, uploading,
                   downloading, loop, used_ids, now, removed_by>>

\* preprocess_audio going on to the recognition whatever ffmpeg did
preprocess_audio_unchecked(task_id, temp_created, ffmpeg_ok) ==
    /\ temp_dir' = IF temp_created THEN temp_dir \cup {task_id} ELSE temp_dir
    /\ bg' = goto(task_id, "ta_whisper")

\* preprocess_audio, transcribe.py:104-127: the temporary file is created
\* (delete=False), then ffmpeg runs; a failure of either is re-raised by the
\* handler of line 126, which removes nothing.
preprocess_audio(task_id, temp_created, ffmpeg_ok) ==
    /\ temp_dir' = IF temp_created THEN temp_dir \cup {task_id} ELSE temp_dir
    /\ bg' = IF temp_created /\ ffmpeg_ok
             THEN goto(task_id, "ta_whisper")
             ELSE raise(task_id, "ta_except",
                        <<"Audio preprocessing failed",
                          IF temp_created THEN "FFmpeg conversion failed"
                                          ELSE "OSError">>)

ta_preprocess(task_id) ==
    /\ running(task_id, "ta_preprocess")
    /\ \E temp_created, ffmpeg_ok \in BOOLEAN :
          /\ (~temp_created => ~ffmpeg_ok)
          /\ preprocess_audio(task_id, temp_created, ffmpeg_ok)
    /\ UNCHANGED <<run, rendering,
                   active_tasks, upload_dir, output_dir, uploading,
                   downloading, loop, used_ids, now, removed_by>>

\* transcribe.py:269-272 transcribe_with_whisper: a result, or an exception
\* that leaves through the finally of line 330
ta_whisper(task_id) ==
    /\ running(task_id, "ta_whisper")
    /\ \E ok \in BOOLEAN :
          bg' = IF ok THEN goto(task_id, "ta_diarize")
                ELSE raise(task_id, "ta_finally",
                           <<"Whisper transcription failed">>)
    /\ UNCHANGED <<run, rendering,
                   active_tasks, upload_dir, output_dir, temp_dir, uploading,
                   downloading, loop, used_ids, now, removed_by>>

\* transcribe.py:274-290 and diarize_speakers 148-199: diarize_speakers
\* catches every exception of the pipeline and returns None, so this stage
\* has no failing exit
ta_diarize(task_id) ==
    /\ running(task_id, "ta_diarize")
    /\ bg' = goto(task_id, "ta_assign")
    /\ UNCHANGED <<run, rendering,
                   active_tasks, upload_dir, output_dir, temp_dir, uploading,
                   downloading, loop, used_ids, now, removed_by>>

\* transcribe.py:292-319: alignment and assembly of the TranscriptionResult;
\* a malformed engine result raises (KeyError, pydantic validation)
TranscriptionResult(task_id) == [task_id |-> task_id]

ta_assign(task_id) ==
    /\ running(task_id, "ta_assign")
    /\ \E ok \in BOOLEAN :
          bg' = IF ok
                THEN [bg EXCEPT ![task_id].pc = "ta_finally",
                                ![task_id].result =
                                    Some(TranscriptionResult(task_id))]
                ELSE raise(task_id, "ta_finally", <<"ValidationError">>)
    /\ UNCHANGED <<run, rendering,
                   active_tasks, upload_dir, output_dir, temp_dir, uploading,
                   downloading, loop, used_ids, now, removed_by>>

\* transcribe.py:330-333: the finally of the inner try removes the temporary
\* file, then the result is returned or the exception goes on to line 335
ta_finally(task_id) ==
    /\ running(task_id, "ta_finally")
    /\ temp_dir' = cleanup_file(temp_dir, task_id)
    /\ bg' = IF bg[task_id].exc = None THEN goto(task_id, "complete")
             ELSE goto(task_id, "ta_except")
    /\ UNCHANGED <<run, rendering,
                   active_tasks, upload_dir, output_dir, uploading,
                   downloading, loop, used_ids, now, removed_by>>

\* transcribe.py:335-339: every exception is re-raised as
\* Exception("Transcription failed: ...")
ta_except(task_id) ==
    /\ running(task_id, "ta_except")
    /\ bg' = raise(task_id, "except", <<"Transcription failed", "...">>)
    /\ UNCHANGED <<run, rendering,
                   active_tasks, upload_dir, output_dir, temp_dir, uploading,
                   downloading, loop, used_ids, now, removed_by>>

\* complete without the assignment of line 118
complete_without_result(t, result) ==
    [t EXCEPT !.status = "completed", !.progress = 10,
              !.message = Some(<<"Transcription completed">>)]

\* main.py:115-118 complete: status, progress 1.0, message and result are
\* assigned with no await in between
complete(t, result) ==
    [t EXCEPT !.status = "completed", !.progress = 10,
              !.message = Some(<<"Transcription completed">>),
              !.result = result]

bg_complete(task_id) ==
    /\ running(task_id, "complete")
    /\ IF has(active_tasks, task_id)
       THEN /\ active_tasks' = [active_tasks EXCEPT
                                   ![task_id] = complete(@, bg[task_id].result)]
            /\ bg' = goto(task_id, "format")
       ELSE /\ bg' = raise(task_id, "except", <<"KeyError">>)
            /\ UNCHANGED active_tasks
    /\ UNCHANGED <<run, rendering,
                   upload_dir, output_dir, temp_dir, uploading, downloading,
                   loop, used_ids, now, removed_by>>

\* main.py:121-124: format_output, then the coroutine awaits aiofiles.open
\* and the loop is free
bg_format(task_id) ==
    /\ running(task_id, "format")
    /\ IF format_output_supported(bg[task_id].request.output_format)
       THEN /\ bg' = goto(task_id, "open")
            /\ loop' = 0
       ELSE /\ bg' = raise(task_id, "except", <<"Unsupported output format">>)
            /\ UNCHANGED loop
    /\ UNCHANGED <<run, rendering,
                   active_tasks, upload_dir, output_dir, temp_dir, uploading,
                   downloading, used_ids, now, removed_by>>

\* main.py:124: the worker thread opens (creates) the result file, or fails;
\* on success the coroutine goes on to await the write.  The file appears
\* when the thread runs, which may be after any handler that found the
\* loop free in the meantime.
bg_open(task_id) ==
    /\ at(task_id, "open")
    /\ loop = 0
    /\ \E ok \in BOOLEAN :
          IF ok
          THEN /\ output_dir' = output_dir \cup
                      {<<task_id, bg[task_id].request.output_format>>}
               /\ bg' = goto(task_id, "write")
               /\ UNCHANGED loop
          ELSE /\ bg' = raise(task_id, "except", <<"OSError">>)
               /\ loop' = task_id
               /\ UNCHANGED output_dir
    /\ UNCHANGED <<run, rendering,
                   active_tasks, upload_dir, temp_dir, uploading, downloading,
                   used_ids, now, removed_by>>

\* main.py:125: the write (and the close) end, or fail
bg_write(task_id) ==
    /\ at(task_id, "write")
    /\ loop = 0
    /\ loop' = task_id
    /\ \E ok \in BOOLEAN :
          bg' = IF ok THEN goto(task_id, "finally")
                ELSE raise(task_id, "except", <<"OSError">>)
    /\ UNCHANGED <<run, rendering,
                   active_tasks, upload_dir, output_dir, temp_dir, uploading,
                   downloading, used_ids, now, removed_by>>

\* fail that also sets the progress back to 0
fail_resetting_progress(t, e) ==
    [t EXCEPT !.status = "failed", !.progress = 0, !.error = Some(e),
              !.message = Some(<<"Transcription failed">> \o e)]

\* fail without the assignment of line 129
fail_without_status(t, e) ==
    [t EXCEPT !.error = Some(e),
              !.message = Some(<<"Transcription failed">> \o e)]

\* main.py:127-131 fail: status, error = str(e), message; a removed task
\* makes line 129 raise KeyError, which leaves the coroutine
fail(t, e) ==
    [t EXCEPT !.status = "failed", !.error = Some(e),
              !.message = Some(<<"Transcription failed">> \o e)]

bg_except(task_id) ==
    /\ running(task_id, "except")
    /\ IF has(active_tasks, task_id)
       THEN /\ active_tasks' = [active_tasks EXCEPT
                                   ![task_id] = fail(@, bg[task_id].exc[1])]
            /\ bg' = goto(task_id, "finally")
       ELSE /\ bg' = raise(task_id, "finally_raise", <<"KeyError">>)
            /\ UNCHANGED active_tasks
    /\ UNCHANGED <<run, rendering,
                   upload_dir, output_dir, temp_dir, uploading, downloading,
                   loop, used_ids, now, removed_by>>

\* main.py:133-135: the upload is removed; the coroutine ends
bg_finally(task_id) ==
    /\ \/ running(task_id, "finally") /\ bg' = ended(task_id, "done")
       \/ running(task_id, "finally_raise") /\ bg' = ended(task_id, "raised")
    /\ upload_dir' = cleanup_file(upload_dir, <<task_id, bg[task_id].suffix>>)
    /\ loop' = 0
    /\ UNCHANGED <<run, rendering,
                   active_tasks, output_dir, temp_dir, uploading, downloading,
                   used_ids, now, removed_by>>

process_transcription_task(task_id) ==
    \/ bg_start(task_id)
    \/ ta_validate(task_id)
    \/ ta_preprocess(task_id)
    \/ ta_whisper(task_id)
    \/ ta_diarize(task_id)
    \/ ta_assign(task_id)
    \/ ta_finally(task_id)
    \/ ta_except(task_id)
    \/ bg_complete(task_id)
    \/ bg_format(task_id)
    \/ bg_open(task_id)
    \/ bg_write(task_id)
    \/ bg_except(task_id)
    \/ bg_finally(task_id)

----------------------------------------------------------------------------
(* GET /status, GET /result, GET /download, DELETE /task *)

\* main.py:215-229: 404, or 200 with the snapshot
get_task_status_code(task_id) ==
    IF ~has(active_tasks, task_id) THEN 404 ELSE 200

get_task_status(task_id) ==
    /\ loop = 0
    /\ get_task_status_code(task_id) \in {200, 404}
    /\ UNCHANGED vars

\* main.py:232-260
get_transcription_result_code(task_id, format) ==
    IF ~has(active_tasks, task_id) THEN 404
    ELSE IF not_completed(active_tasks[task_id]) THEN 400
    ELSE IF active_tasks[task_id].result = None THEN 404
    ELSE IF format = "json" THEN 200
    ELSE IF <<task_id, format>> \notin output_dir THEN 404
    ELSE 200

get_transcription_result(task_id, format) ==
    /\ loop = 0
    /\ get_transcription_result_code(task_id, format) \in {200, 400, 404}
    /\ UNCHANGED vars

\* main.py:263-285 up to the await of line 278: 404, 400, the file served
\* as it is (200), ValueError of format_output (500), or 0: the coroutine
\* suspends to create the file
download_result_code(task_id, format) ==
    IF ~has(active_tasks, task_id) THEN 404
    ELSE IF not_completed(active_tasks[task_id]) THEN 400
    ELSE IF <<task_id, format>> \in output_dir THEN 200
    ELSE IF ~format_output_supported(format) THEN 500
    ELSE 0

download_result(task_id, format) ==
    /\ loop = 0
    /\ IF download_result_code(task_id, format) = 0
       THEN /\ Cardinality(downloading) < MaxDownloads
            /\ downloading' = downloading \cup {<<task_id, format>>}
       ELSE UNCHANGED downloading
    /\ UNCHANGED <<run, rendering,
                   active_tasks, upload_dir, output_dir, temp_dir, uploading,
                   bg, loop, used_ids, now, removed_by>>

\* main.py:278-285: the worker thread creates the file and the response is
\* sent (200), or the open fails (500)
download_written(d) ==
    /\ loop = 0
    /\ d \in downloading
    /\ downloading' = downloading \ {d}
    /\ \E ok \in BOOLEAN :
          output_dir' = IF ok THEN output_dir \cup {d} ELSE output_dir
    /\ UNCHANGED <<run, rendering,
                   active_tasks, upload_dir, temp_dir, uploading, bg, loop,
                   used_ids, now, removed_by>>

\* delete_task without its test of line 291
delete_task_code_idempotent(task_id) == 200

\* main.py:288-302: 404, or the record is removed, then the result file of
\* each of json, txt, srt; 200
delete_task_code(task_id) ==
    IF ~has(active_tasks, task_id) THEN 404 ELSE 200

delete_outputs(dir, task_id) ==
    {f \in dir : ~(f[1] = task_id
                   /\ \E i \in DOMAIN DELETE_FORMATS : f[2] = DELETE_FORMATS[i])}

delete_task(task_id) ==
    /\ loop = 0
    /\ IF delete_task_code(task_id) = 404
       THEN UNCHANGED <<active_tasks, output_dir, removed_by>>
       ELSE /\ active_tasks' = del(active_tasks, task_id)
            /\ output_dir' = delete_outputs(output_dir, task_id)
            /\ removed_by' = put(removed_by, task_id, "delete")
    /\ UNCHANGED <<run, rendering,
                   upload_dir, temp_dir, uploading, bg, downloading, loop,
                   used_ids, now>>

----------------------------------------------------------------------------
(* cleanup_old_tasks, main.py:326-344: one pass.  delete_task has no await, *)
(* so the pass is one uninterrupted step of the loop.                       *)

tasks_to_remove(current_time) ==
    {task_id \in DOMAIN active_tasks :
        expired(active_tasks[task_id], current_time)}

cleanup_old_tasks ==
    /\ loop = 0
    /\ LET gone == tasks_to_remove(now) IN
       /\ active_tasks' = [j \in DOMAIN active_tasks \ gone |-> active_tasks[j]]
       /\ output_dir' = {f \in output_dir :
                            f \in delete_outputs(output_dir, f[1])
                            \/ f[1] \notin gone}
       /\ removed_by' = [j \in DOMAIN removed_by \cup gone |->
                            IF j \in gone THEN "sweep" ELSE removed_by[j]]
    /\ UNCHANGED <<run, rendering,
                   upload_dir, temp_dir, uploading, bg, downloading, loop,
                   used_ids, now>>

\* the clock
ticks == (now \div MAX_AGE_SECONDS) + (now % MAX_AGE_SECONDS)

Tick ==
    /\ ticks < MaxTicks
    /\ \E d \in TickDeltas : now' = now + d
    /\ UNCHANGED <<run, rendering,
                   active_tasks, upload_dir, output_dir, temp_dir, uploading,
                   bg, downloading, loop, used_ids, removed_by>>

----------------------------------------------------------------------------

Next ==
    \/ \E s \in FileSuffixes, m \in MimeTypes, z \in FileSizes :
          upload_rejected(s, m, z)
    \/ \E id \in TaskIds, s \in FileSuffixes, m \in MimeTypes, z \in FileSizes,
          f \in OutputFormats :
          upload_file(id, s, m, z, f)
    \/ \E u \in uploading : upload_saved(u)
    \/ \E u \in uploading, c \in BOOLEAN : upload_failed(u, c)
    \/ \E id \in TaskIds : process_transcription_task(id)
    \/ \E id \in TaskIds : get_task_status(id)
    \/ \E id \in TaskIds, f \in QueryFormats : get_transcription_result(id, f)
    \/ \E id \in TaskIds, f \in DownloadFormats : download_result(id, f)
    \/ \E d \in downloading : download_written(d)
    \/ \E id \in TaskIds : delete_task(id)
    \/ cleanup_old_tasks
    \/ Tick

Spec == Init /\ [][Next]_vars

\* The event loop runs every ready coroutine: a background task that can
\* take a step eventually takes it.
FairSpec ==
    Spec /\ WF_vars(\E id \in TaskIds : process_transcription_task(id))

----------------------------------------------------------------------------
(* AudioTranscriber.transcribe_audio from the results of the two engines   *)
(* on: diarize_speakers, assign_speakers_to_segments and the assembly of   *)
(* the TranscriptionResult (transcribe.py:148-242, 274-319), as functions  *)
(* of recognition segments and speaker turns drawn from bounded sets.      *)
(* Times are whole seconds; a text is a sequence of characters.            *)

MaxSegments == 2       \* recognition segments of one call
MaxTurns == 2          \* speaker turns of one diarization

Times == 0..3
Words == <<"a", "b", "c", "d">>
RawLabels == {"SPEAKER_00", "SPEAKER_01"}

max(a, b) == IF a > b THEN a ELSE b
min(a, b) == IF a < b THEN a ELSE b

\* str.strip()
RECURSIVE lstrip(_)
lstrip(s) == IF s # << >> /\ Head(s) = " " THEN lstrip(Tail(s)) ELSE s

RECURSIVE rstrip(_)
rstrip(s) ==
    IF s # << >> /\ s[Len(s)] = " " THEN rstrip(SubSeq(s, 1, Len(s) - 1))
    ELSE s

strip(s) == rstrip(lstrip(s))

\* whisper_result["segments"]: consecutive segments, each with the leading
\* blank Whisper puts before its text
WhisperSegments ==
    UNION {{[i \in 1..n |-> [start |-> ws[i].start, end |-> ws[i].end,
                             text |-> <<" ", Words[i]>>]] :
               ws \in {w \in [1..n -> [start : Times, end : Times]] :
                          /\ \A i \in 1..n : w[i].start <= w[i].end
                          /\ \A i \in 1..(n - 1) : w[i].end <= w[i + 1].start}} :
           n \in 0..MaxSegments}

\* annotation.itertracks(yield_label=True): the turns in order of start
Annotations ==
    UNION {{ts \in [1..n -> [start : Times, end : Times, label : RawLabels]] :
               /\ \A i \in 1..n : ts[i].start < ts[i].end
               /\ \A i \in 1..(n - 1) : ts[i].start <= ts[i + 1].start} :
           n \in 0..MaxTurns}

\* what the diarization engine does when asked: no pipeline
\* (load_pyannote_pipeline returns None), an exception, or an annotation
Engines ==
    {[kind |-> "unavailable", turns |-> << >>],
     [kind |-> "raises", turns |-> << >>]}
    \cup {[kind |-> "annotation", turns |-> ts] : ts \in Annotations}

\* f"Speaker {n}"
SpeakerName(n) == <<"Speaker", n>>

\* transcribe.py:181-184 speaker_map: labels are numbered from 1 in order of
\* first appearance
speaker_map(turns, label) ==
    LET first == CHOOSE j \in DOMAIN turns :
                    /\ turns[j].label = label
                    /\ \A i \in 1..(j - 1) : turns[i].label # label
    IN Cardinality({turns[i].label : i \in 1..first})

\* diarize_speakers returning the empty list where it returns None
diarize_speakers_empty_on_error(engine) ==
    IF engine.kind = "unavailable" THEN Some(<< >>)
    ELSE IF engine.kind = "raises" THEN Some(<< >>)
    ELSE Some([k \in DOMAIN engine.turns |->
                 [start |-> engine.turns[k].start,
                  end |-> engine.turns[k].end,
                  speaker |-> SpeakerName(speaker_map(engine.turns,
                                                      engine.turns[k].label))]])

\* diarize_speakers, transcribe.py:148-199: None without a pipeline, None
\* when anything raises, else the list of turns with their speaker names
diarize_speakers(engine) ==
    IF engine.kind = "unavailable" THEN None
    ELSE IF engine.kind = "raises" THEN None
    ELSE Some([k \in DOMAIN engine.turns |->
                 [start |-> engine.turns[k].start,
                  end |-> engine.turns[k].end,
                  speaker |-> SpeakerName(speaker_map(engine.turns,
                                                      engine.turns[k].label))]])

\* `not speaker_segments`: None or the empty list
falsy(speaker_segments) ==
    speaker_segments = None \/ speaker_segments[1] = << >>

\* transcribe.py:225-227
overlap_duration(whisper_seg, speaker_seg) ==
    max(0, min(whisper_seg.end, speaker_seg.end)
           - max(whisper_seg.start, speaker_seg.start))

\* the loop of lines 223-231 with >= for >
RECURSIVE assign_speaker_last_wins(_, _, _, _, _)
assign_speaker_last_wins(whisper_seg, speaker_segs, k, max_overlap, speaker) ==
    IF k > Len(speaker_segs) THEN speaker
    ELSE IF overlap_duration(whisper_seg, speaker_segs[k]) >= max_overlap
    THEN assign_speaker_last_wins(whisper_seg, speaker_segs, k + 1,
                         overlap_duration(whisper_seg, speaker_segs[k]),
                         speaker_segs[k].speaker)
    ELSE assign_speaker_last_wins(whisper_seg, speaker_segs, k + 1,
                                  max_overlap, speaker)

\* transcribe.py:223-231: the loop over the speaker turns from turn k on,
\* with the largest overlap so far and the speaker that has it
RECURSIVE assign_speaker(_, _, _, _, _)
assign_speaker(whisper_seg, speaker_segs, k, max_overlap, assigned_speaker) ==
    IF k > Len(speaker_segs) THEN assigned_speaker
    ELSE IF overlap_duration(whisper_seg, speaker_segs[k]) > max_overlap
    THEN assign_speaker(whisper_seg, speaker_segs, k + 1,
                        overlap_duration(whisper_seg, speaker_segs[k]),
                        speaker_segs[k].speaker)
    ELSE assign_speaker(whisper_seg, speaker_segs, k + 1,
                        max_overlap, assigned_speaker)

\* TranscriptionSegment(...) with the speaker left out
TranscriptionSegment_unlabelled(whisper_seg, speaker) ==
    [text |-> strip(whisper_seg.text), start_time |-> whisper_seg.start,
     end_time |-> whisper_seg.end, speaker |-> None, confidence |-> None]

\* TranscriptionSegment(text, start_time, end_time, speaker)
TranscriptionSegment(whisper_seg, speaker) ==
    [text |-> strip(whisper_seg.text), start_time |-> whisper_seg.start,
     end_time |-> whisper_seg.end, speaker |-> Some(speaker),
     confidence |-> None]

\* assign_speakers_to_segments with a label per segment when there are no
\* turns
assign_speakers_numbered(whisper_segments, speaker_segments) ==
    IF falsy(speaker_segments)
    THEN [i \in DOMAIN whisper_segments |->
             TranscriptionSegment(whisper_segments[i], SpeakerName(i))]
    ELSE [i \in DOMAIN whisper_segments |->
             TranscriptionSegment(whisper_segments[i],
                 assign_speaker(whisper_segments[i], speaker_segments[1], 1,
                                0, SpeakerName(1)))]

\* assign_speakers_to_segments, transcribe.py:201-242
assign_speakers_to_segments(whisper_segments, speaker_segments) ==
    IF falsy(speaker_segments)
    THEN [i \in DOMAIN whisper_segments |->
             TranscriptionSegment(whisper_segments[i], SpeakerName(1))]
    ELSE [i \in DOMAIN whisper_segments |->
             TranscriptionSegment(whisper_segments[i],
                 assign_speaker(whisper_segments[i], speaker_segments[1], 1,
                                0, SpeakerName(1)))]

\* transcribe.py:281-284: the number of distinct speakers of the turns
count_speakers(speaker_segments) ==
    IF falsy(speaker_segments) THEN 1
    ELSE Cardinality({speaker_segments[1][k].speaker :
                         k \in DOMAIN speaker_segments[1]})

\* " ".join(...)
RECURSIVE join(_)
join(texts) ==
    IF texts = << >> THEN << >>
    ELSE IF Len(texts) = 1 THEN texts[1]
    ELSE texts[1] \o <<" ">> \o join(Tail(texts))

\* the end of the first segment in place of the last
audio_duration_first(whisper_segments) ==
    IF whisper_segments # << >> THEN whisper_segments[1].end ELSE 0

\* transcribe.py:302
audio_duration(whisper_segments) ==
    IF whisper_segments # << >>
    THEN whisper_segments[Len(whisper_segments)].end
    ELSE 0

\* the state of no call
lifecycle == <<active_tasks, upload_dir, output_dir, temp_dir, uploading, bg,
               downloading, loop, used_ids, now, removed_by>>

RunInit ==
    /\ active_tasks = << >>
    /\ upload_dir = {}
    /\ output_dir = {}
    /\ temp_dir = {}
    /\ uploading = {}
    /\ bg = << >>
    /\ downloading = {}
    /\ loop = 0
    /\ used_ids = {}
    /\ now = 0
    /\ removed_by = << >>
    /\ rendering = << >>
    /\ \E ws \in WhisperSegments, d \in BOOLEAN, p \in BOOLEAN, e \in Engines :
          /\ (~(d /\ p) => e.kind = "unavailable")
          /\ run = [pc |-> "recognized", whisper_segments |-> ws,
                    detect_speakers |-> d, PYANNOTE_AVAILABLE |-> p,
                    engine |-> e, speaker_segments |-> None,
                    num_speakers |-> 0, transcription_segments |-> << >>,
                    result |-> None]

\* transcribe.py:275-290
run_diarize ==
    /\ run.pc = "recognized"
    /\ LET speaker_segments ==
               IF run.detect_speakers /\ run.PYANNOTE_AVAILABLE
               THEN diarize_speakers(run.engine)
               ELSE None
       IN run' = [run EXCEPT !.pc = "diarized",
                             !.speaker_segments = speaker_segments,
                             !.num_speakers = count_speakers(speaker_segments)]
    /\ UNCHANGED <<lifecycle, rendering>>

\* transcribe.py:292-296
run_assign ==
    /\ run.pc = "diarized"
    /\ run' = [run EXCEPT !.pc = "assigned",
                          !.transcription_segments =
                              assign_speakers_to_segments(
                                  run.whisper_segments, run.speaker_segments)]
    /\ UNCHANGED <<lifecycle, rendering>>

\* transcribe.py:298-328: full_text, duration and the TranscriptionResult
run_result ==
    /\ run.pc = "assigned"
    /\ run' = [run EXCEPT
                  !.pc = "returned",
                  !.result = Some(
                     [segments |-> run.transcription_segments,
                      full_text |-> join([i \in DOMAIN run.transcription_segments
                                            |-> run.transcription_segments[i].text]),
                      duration |-> audio_duration(run.whisper_segments),
                      num_speakers |-> run.num_speakers,
                      metadata |->
                         [speaker_diarization |->
                             /\ run.detect_speakers
                             /\ run.PYANNOTE_AVAILABLE
                             /\ run.speaker_segments # None]])]
    /\ UNCHANGED <<lifecycle, rendering>>

RunNext == run_diarize \/ run_assign \/ run_result

SpecRun == RunInit /\ [][RunNext]_vars

----------------------------------------------------------------------------
(* AudioTranscriber.format_output, transcribe.py:341-382, as a function of *)
(* a transcript and a format drawn from bounded sets.  A rendering is the  *)
(* list of the lines that "\n".join puts together; a line is the list of   *)
(* its pieces, numbers standing for their zero-padded decimal form.        *)

FormatTimes == {0, 61, 3725}
FormatValues == {"json", "txt", "srt", "xml", "SRT"}
Speakers == {None, Some(SpeakerName(1)), Some(SpeakerName(2))}

\* result.segments: TranscriptionSegment values in the order of their times
Transcripts ==
    UNION {{[segments |->
                [i \in 1..n |-> [text |-> <<Words[i]>>,
                                 start_time |-> ts[i].start,
                                 end_time |-> ts[i].end,
                                 speaker |-> ts[i].speaker,
                                 confidence |-> None]]] :
               ts \in {t \in [1..n -> [start : FormatTimes, end : FormatTimes,
                                       speaker : Speakers]] :
                          /\ \A i \in 1..n : t[i].start <= t[i].end
                          /\ \A i \in 1..(n - 1) : t[i].end <= t[i + 1].start}} :
           n \in 0..MaxSegments}

\* _format_srt_time, transcribe.py:376-382: hours, minutes, seconds,
\* milliseconds
format_srt_time(seconds) ==
    <<seconds \div 3600, (seconds % 3600) \div 60, seconds % 60,
      (seconds % 1) * 1000>>

\* transcribe.py:348-351: one line of the txt rendering
txt_line(segment) ==
    <<"[", segment.start_time \div 60, ":", segment.start_time % 60, "]", " ">>
    \o (IF segment.speaker # None THEN segment.speaker[1] \o <<":">> ELSE << >>)
    \o <<" ">> \o segment.text

\* the cue numbered from 0
srt_cue_from_zero(i, segment) ==
    << <<i - 1>>,
       format_srt_time(segment.start_time) \o <<"-->">>
          \o format_srt_time(segment.end_time),
       IF segment.speaker # None
       THEN segment.speaker[1] \o <<":", " ">> \o segment.text
       ELSE segment.text,
       << >> >>

\* transcribe.py:357-369: the four lines of cue i
srt_cue(i, segment) ==
    << <<i>>,
       format_srt_time(segment.start_time) \o <<"-->">>
          \o format_srt_time(segment.end_time),
       IF segment.speaker # None
       THEN segment.speaker[1] \o <<":", " ">> \o segment.text
       ELSE segment.text,
       << >> >>

\* transcribe.py:356: for i, segment in enumerate(result.segments, 1)
RECURSIVE srt_lines(_, _)
srt_lines(segments, i) ==
    IF i > Len(segments) THEN << >>
    ELSE srt_cue(i, segments[i]) \o srt_lines(segments, i + 1)

\* format_output with the json rendering for every other format
format_output_default_json(result, output_format) ==
    IF output_format = "txt"
    THEN [format |-> output_format, raised |-> None,
          value |-> [i \in DOMAIN result.segments |-> txt_line(result.segments[i])]]
    ELSE IF output_format = "srt"
    THEN [format |-> output_format, raised |-> None,
          value |-> srt_lines(result.segments, 1)]
    ELSE [format |-> output_format, raised |-> None, value |-> <<result>>]

\* format_output, transcribe.py:341-374: the value returned, or the
\* exception raised
format_output(result, output_format) ==
    IF output_format = "json"
    THEN [format |-> output_format, raised |-> None, value |-> <<result>>]
    ELSE IF output_format = "txt"
    THEN [format |-> output_format, raised |-> None,
          value |-> [i \in DOMAIN result.segments |-> txt_line(result.segments[i])]]
    ELSE IF output_format = "srt"
    THEN [format |-> output_format, raised |-> None,
          value |-> srt_lines(result.segments, 1)]
    ELSE [format |-> output_format,
          raised |-> Some(<<"ValueError", "Unsupported output format">>),
          value |-> << >>]

FormatInit ==
    /\ active_tasks = << >>
    /\ upload_dir = {}
    /\ output_dir = {}
    /\ temp_dir = {}
    /\ uploading = {}
    /\ bg = << >>
    /\ downloading = {}
    /\ loop = 0
    /\ used_ids = {}
    /\ now = 0
    /\ removed_by = << >>
    /\ run = << >>
    /\ \E t \in Transcripts :
          rendering = [given |-> t, result |-> t, out |-> None, prev |-> None]

\* one call of format_output on the transcript; the call assigns to nothing
\* but its own locals
format_call(output_format) ==
    /\ rendering' = [rendering EXCEPT
                        !.out = Some(format_output(rendering.result,
                                                   output_format)),
                        !.prev = rendering.out]
    /\ UNCHANGED <<lifecycle, run>>

FormatNext == \E f \in FormatValues : format_call(f)

SpecFormat == FormatInit /\ [][FormatNext]_vars

----------------------------------------------------------------------------
(* Properties *)

Terminal == {"completed", "failed"}
TaStages == {"ta_validate", "ta_preprocess", "ta_whisper", "ta_diarize",
             "ta_assign", "ta_finally", "ta_except"}
Finished(task_id) == has(bg, task_id) /\ bg[task_id].pc \in {"done", "raised"}
HasOutput(task_id) ==
    \E i \in DOMAIN DELETE_FORMATS : <<task_id, DELETE_FORMATS[i]>> \in output_dir

\* C1: every change of a job's status is pending->processing,
\* processing->completed or processing->failed; a completed or failed job
\* keeps its status while it is in the table.
C1_StatusTransitions ==
    [][\A id \in DOMAIN active_tasks \cap DOMAIN active_tasks' :
          active_tasks'[id].status # active_tasks[id].status
          => <<active_tasks[id].status, active_tasks'[id].status>> \in
                {<<"pending", "processing">>, <<"processing", "completed">>,
                 <<"processing", "failed">>}]_vars

\* C2: a completed job has a result and a failed job has an error, in every
\* state of the job table.
C2_TerminalHasPayload ==
    \A id \in DOMAIN active_tasks :
        /\ active_tasks[id].status = "completed"
              => active_tasks[id].result # None
        /\ active_tasks[id].status = "failed"
              => active_tasks[id].error # None

C2_Witness ==
    \E a, b \in DOMAIN active_tasks :
        /\ active_tasks[a].status = "completed"
        /\ active_tasks[a].result = Some(TranscriptionResult(a))
        /\ active_tasks[b].status = "failed"
        /\ active_tasks[b].error = Some(<<"Transcription failed", "...">>)

\* C3: a job is processing only while its background task is inside its
\* uninterrupted run; when the handler of a raised exception has run, the
\* job is failed with the error stored; the submitter's request has ended
\* before the background task exists; and a processing job that stays in the
\* table becomes completed or failed.
C3_Safety ==
    \A id \in TaskIds :
        /\ (has(active_tasks, id) /\ active_tasks[id].status = "processing")
              => (loop = id /\ has(bg, id) /\ ~Finished(id))
        /\ at(id, "finally")
              => (bg[id].exc # None
                    => /\ has(active_tasks, id)
                       /\ active_tasks[id].status = "failed"
                       /\ active_tasks[id].error = Some(bg[id].exc[1]))
        /\ has(bg, id) => \A u \in uploading : u.task_id # id

C3_NeverStuck ==
    /\ []C3_Safety
    /\ \A id \in TaskIds :
          (has(active_tasks, id) /\ active_tasks[id].status = "processing")
             ~> (~has(active_tasks, id)
                 \/ active_tasks[id].status \in Terminal)

C3_Witness ==
    \E id \in TaskIds :
        /\ at(id, "finally")
        /\ bg[id].exc = Some(<<"Transcription failed", "...">>)
        /\ active_tasks[id].status = "failed"

\* C4: when transcribe_audio is not running for a task (it has returned or
\* raised), no temporary normalized-audio file of that task exists.
C4_NoTempLeak ==
    \A id \in temp_dir : has(bg, id) /\ bg[id].pc \in TaStages

\* C5: for a job in the table whose status is not completed, a result
\* request and a download request answer 400 in every format, whatever its
\* progress, stored result and stored files.
C5_NotCompletedIs400 ==
    \A id \in DOMAIN active_tasks, f \in QueryFormats :
        active_tasks[id].status # "completed"
        => /\ get_transcription_result_code(id, f) = 400
           /\ download_result_code(id, f) = 400

C5_Witness ==
    \E id \in DOMAIN active_tasks :
        /\ active_tasks[id].status = "failed"
        /\ active_tasks[id].progress = 10
        /\ active_tasks[id].result # None
        /\ <<id, "json">> \in output_dir
        /\ loop = 0
        /\ get_transcription_result_code(id, "json") = 400
        /\ download_result_code(id, "json") = 400

\* C6: a submission with an unsupported output format creates no job: no
\* upload_file coroutine goes on, and no background task is scheduled, with
\* an output format outside json, txt, srt.
C6_UnsupportedFormatRejected ==
    /\ \A u \in uploading : format_output_supported(u.request.output_format)
    /\ \A id \in DOMAIN bg :
          bg[id].pc = "queued"
          => format_output_supported(bg[id].request.output_format)

\* C7: a submission whose suffix is outside SUPPORTED_FORMATS or whose size
\* exceeds MAX_FILE_SIZE is answered 400 or 413, and a step of it leaves the
\* job table, the uploads and the background tasks unchanged.
upload_step(suffix, mime, size) ==
    \/ upload_rejected(suffix, mime, size)
    \/ \E id \in TaskIds, f \in OutputFormats :
          upload_file(id, suffix, mime, size, f)

C7_BadFileRejected ==
    [][\A s \in FileSuffixes, m \in MimeTypes, z \in FileSizes :
          (lower(s) \notin {".mp3", ".wav", ".m4a", ".flac", ".ogg", ".webm"}
           \/ z > 100 * 1024 * 1024)
          => /\ upload_file_rejection(s, m, z) \in {400, 413}
             /\ upload_step(s, m, z)
                   => UNCHANGED <<active_tasks, upload_dir, uploading, bg,
                                  used_ids>>]_vars

C7_Witness ==
    /\ loop = 0
    /\ \E id \in DOMAIN active_tasks : active_tasks[id].status = "pending"
    /\ upload_file_rejection(".txt", "audio/mpeg", 1024) = 400
    /\ upload_file_rejection(".MP3", "audio/mpeg", MAX_FILE_SIZE + 1) = 413
    /\ ENABLED upload_rejected(".txt", "audio/mpeg", 1024)

\* C8: once delete_task has removed a job, the job is not in the table and
\* no result file of it exists in json, txt or srt, then and ever after.
C8_DeleteRemovesArtifacts ==
    \A id \in DOMAIN removed_by :
        removed_by[id] = "delete"
        => ~has(active_tasks, id) /\ ~HasOutput(id)

\* C9: the sweep removes no job whose background task has not finished.
C9_SweepSparesUnfinished ==
    \A id \in DOMAIN removed_by :
        removed_by[id] = "sweep" => Finished(id)

----------------------------------------------------------------------------
(* Properties of the alignment, the assembly and the rendering *)

Overlaps(whisper_seg, speaker_seg) ==
    /\ whisper_seg.start < speaker_seg.end
    /\ speaker_seg.start < whisper_seg.end

Shared(whisper_seg, speaker_seg) ==
    IF Overlaps(whisper_seg, speaker_seg)
    THEN min(whisper_seg.end, speaker_seg.end)
         - max(whisper_seg.start, speaker_seg.start)
    ELSE 0

Aligned == run.pc \in {"assigned", "returned"}
HasTurns == run.speaker_segments # None /\ run.speaker_segments[1] # << >>

\* C11: with a non-empty list of turns, every segment that overlaps at least
\* one turn carries the speaker of the turn it shares the most time with,
\* and of the first such turn in the order of the list when several share
\* the same, longest time.
C11_MaxOverlapFirstWins ==
    (Aligned /\ HasTurns) =>
    LET turns == run.speaker_segments[1] IN
    \A i \in DOMAIN run.whisper_segments :
        LET seg == run.whisper_segments[i] IN
        (\E k \in DOMAIN turns : Overlaps(seg, turns[k]))
        => \E k \in DOMAIN turns :
              /\ \A j \in DOMAIN turns : Shared(seg, turns[j]) <= Shared(seg, turns[k])
              /\ \A j \in 1..(k - 1) : Shared(seg, turns[j]) < Shared(seg, turns[k])
              /\ run.transcription_segments[i].speaker = Some(turns[k].speaker)

C11_Witness ==
    /\ Aligned /\ HasTurns
    /\ LET turns == run.speaker_segments[1] IN
       \E i \in DOMAIN run.whisper_segments :
          /\ Len(turns) = 2
          /\ turns[1].speaker # turns[2].speaker
          /\ Shared(run.whisper_segments[i], turns[1]) > 0
          /\ Shared(run.whisper_segments[i], turns[1])
                = Shared(run.whisper_segments[i], turns[2])
          /\ run.transcription_segments[i].speaker = Some(turns[1].speaker)

\* C12: with a non-empty list of turns, a segment that overlaps no turn
\* carries a label of its own: not "Speaker 1", and not the speaker of any
\* turn.
C12_NoOverlapUnknown ==
    (Aligned /\ HasTurns) =>
    LET turns == run.speaker_segments[1] IN
    \A i \in DOMAIN run.whisper_segments :
        (\A k \in DOMAIN turns : ~Overlaps(run.whisper_segments[i], turns[k]))
        => /\ run.transcription_segments[i].speaker # Some(SpeakerName(1))
           /\ \A k \in DOMAIN turns :
                 run.transcription_segments[i].speaker # Some(turns[k].speaker)

\* C13: when the list of turns is empty or there is none, every segment
\* carries the one default label "Speaker 1".
C13_NoTurnsDefaultLabel ==
    (Aligned /\ ~HasTurns) =>
        /\ Len(run.transcription_segments) = Len(run.whisper_segments)
        /\ \A i \in DOMAIN run.transcription_segments :
              run.transcription_segments[i].speaker = Some(<<"Speaker", 1>>)

C13_Witness ==
    /\ Aligned
    /\ run.speaker_segments = Some(<< >>)
    /\ Len(run.transcription_segments) = 2
    /\ run.transcription_segments[1].speaker = Some(<<"Speaker", 1>>)
    /\ run.transcription_segments[2].speaker = Some(<<"Speaker", 1>>)

Returned == run.pc = "returned"

\* C14: the num_speakers of a returned transcript is the number of distinct
\* speaker labels its segments carry, and 1 when it has no segment.
C14_SpeakerCountIsLabelCount ==
    Returned =>
    LET result == run.result[1]
        labels == {result.segments[i].speaker : i \in DOMAIN result.segments}
    IN result.num_speakers = max(1, Cardinality(labels))

\* C15: the duration of a returned transcript is the end time of the last
\* recognition segment, and 0 when there is no segment; a call without
\* segments goes on to return a transcript with no segment and empty text.
C15_DurationIsLastEnd ==
    /\ Returned =>
          /\ \A i \in DOMAIN run.whisper_segments :
                i = Len(run.whisper_segments)
                => run.result[1].duration = run.whisper_segments[i].end
          /\ run.whisper_segments = << >>
                => /\ run.result[1].duration = 0
                   /\ run.result[1].segments = << >>
                   /\ run.result[1].full_text = << >>
    /\ (run.whisper_segments = << >> /\ ~Returned) => ENABLED RunNext

C15_Witness ==
    /\ Returned
    /\ Len(run.whisper_segments) = 2
    /\ run.whisper_segments[1].end < run.whisper_segments[2].end
    /\ run.result[1].duration = run.whisper_segments[2].end
    /\ run.result[1].full_text = <<"a", " ", "b">>

\* C16: when speaker detection is requested and the diarization engine is
\* not available or raises, the call still goes on to return a transcript,
\* whose metadata flag speaker_diarization is false and whose segments all
\* carry the default label.
C16_DiarizationFailureNotFatal ==
    (run.detect_speakers /\ run.engine.kind \in {"unavailable", "raises"}) =>
        /\ ~Returned => ENABLED RunNext
        /\ Returned =>
              /\ run.result # None
              /\ run.result[1].metadata.speaker_diarization = FALSE
              /\ Len(run.result[1].segments) = Len(run.whisper_segments)
              /\ \A i \in DOMAIN run.result[1].segments :
                    run.result[1].segments[i].speaker = Some(<<"Speaker", 1>>)

C16_Witness ==
    /\ Returned
    /\ run.detect_speakers
    /\ run.PYANNOTE_AVAILABLE
    /\ run.engine.kind = "raises"
    /\ Len(run.result[1].segments) = 2
    /\ run.result[1].metadata.speaker_diarization = FALSE

\* C17: format_output called with a format outside json, txt, srt raises the
\* error "Unsupported output format" and returns no rendering, for every
\* transcript.
C17_UnknownFormatRaises ==
    (rendering.out # None /\ rendering.out[1].format \notin {"json", "txt", "srt"})
    => /\ rendering.out[1].raised # None
       /\ rendering.out[1].raised[1][2] = "Unsupported output format"
       /\ rendering.out[1].value = << >>

C17_Witness ==
    /\ rendering.out # None
    /\ rendering.prev # None
    /\ Len(rendering.result.segments) = 2
    /\ rendering.prev[1].format = "xml"
    /\ rendering.out[1].format = "SRT"
    /\ rendering.prev[1].raised # None
    /\ rendering.out[1].raised # None

C19_SubmitReturnsPending ==
    [][\A u \in uploading :
          upload_saved(u)
          => /\ at(u.task_id, "queued")'
             /\ u.task_id \in DOMAIN active_tasks'
             /\ active_tasks'[u.task_id].status = "pending"
             /\ active_tasks'[u.task_id].progress = 0
             /\ active_tasks'[u.task_id].result = None
             /\ active_tasks'[u.task_id].error = None]_vars

\* the same for a job that is still in the table when upload_file returns
C19_StillPresentIsPending ==
    [][\A u \in uploading :
          (upload_saved(u) /\ u.task_id \in DOMAIN active_tasks)
          => /\ at(u.task_id, "queued")'
             /\ u.task_id \notin DOMAIN bg
             /\ active_tasks'[u.task_id] = NewTaskStatus(u.task_id,
                                              active_tasks[u.task_id].created_at)]_vars

\* C20: for a task id that is not in the table (never drawn, deleted, swept
\* or removed by a failed upload), the status, result, download and delete
\* requests answer 404 and a step of any of them changes nothing: not the
\* table, not a file, not a coroutine; so the delete of an id that a delete
\* has removed answers 404.
Absent == TaskIds \ DOMAIN active_tasks

request_step(task_id) ==
    \/ get_task_status(task_id)
    \/ \E f \in QueryFormats : get_transcription_result(task_id, f)
    \/ \E f \in DownloadFormats : download_result(task_id, f)
    \/ delete_task(task_id)

C20_AbsentIsNotFound ==
    /\ [](\A id \in Absent :
             /\ get_task_status_code(id) = 404
             /\ \A f \in QueryFormats :
                   /\ get_transcription_result_code(id, f) = 404
                   /\ download_result_code(id, f) = 404
             /\ delete_task_code(id) = 404)
    /\ [](\A id \in DOMAIN removed_by :
             removed_by[id] = "delete" => delete_task_code(id) = 404)
    /\ [][\A id \in Absent : request_step(id) => UNCHANGED vars]_vars

C20_Witness ==
    \E a \in DOMAIN removed_by, b \in TaskIds :
        /\ removed_by[a] = "delete"
        /\ b \notin used_ids
        /\ HasOutput(a)
        /\ <<a, ".mp3">> \in upload_dir
        /\ loop = 0
        /\ delete_task_code(a) = 404
        /\ delete_task_code(b) = 404
        /\ download_result_code(a, "srt") = 404
        /\ ENABLED delete_task(a)

----------------------------------------------------------------------------
(* Properties of the stages, the progress and the removal of jobs *)

Milestones == {"ta_preprocess", "ta_whisper", "ta_diarize", "ta_assign"}

\* C21: when the background task of a job in the table enters a stage of
\* transcribe_audio (normalization, recognition, diarization, alignment),
\* the progress or the message of the job is updated in that step.
C21_ProgressAtEveryStage ==
    [][\A id \in DOMAIN active_tasks \cap DOMAIN bg :
          (bg'[id].pc # bg[id].pc /\ bg'[id].pc \in Milestones)
          => /\ id \in DOMAIN active_tasks'
             /\ \/ active_tasks'[id].progress # active_tasks[id].progress
                \/ active_tasks'[id].message # active_tasks[id].message]_vars

\* C22: the stages of transcribe_audio run in the order normalization,
\* recognition, diarization, alignment, assembly: each is entered from the
\* one before it only, with no exception pending; the recognition runs on
\* the normalized file; and a failure of the normalization or of the
\* recognition leaves through the handlers with no later stage entered and
\* no transcript, so the job does not complete.
StageBefore ==
    [ta_preprocess |-> "ta_validate", ta_whisper |-> "ta_preprocess",
     ta_diarize |-> "ta_whisper", ta_assign |-> "ta_diarize"]

C22_StagesInOrder ==
    /\ [](\A id \in DOMAIN bg :
             /\ bg[id].pc \in {"ta_whisper", "ta_diarize", "ta_assign"}
                   => (id \in temp_dir /\ bg[id].exc = None
                       /\ bg[id].result = None)
             /\ (bg[id].pc \in {"ta_finally", "ta_except"} /\ bg[id].exc # None)
                   => bg[id].result = None
             /\ bg[id].pc = "complete"
                   => (bg[id].exc = None /\ bg[id].result # None))
    /\ [][\A id \in DOMAIN bg :
             (~Finished(id) /\ bg'[id].pc \notin {"done", "raised"}) =>
             /\ (bg'[id].pc # bg[id].pc /\ bg'[id].pc \in DOMAIN StageBefore)
                   => bg[id].pc = StageBefore[bg'[id].pc]
             /\ (bg[id].pc \in {"ta_preprocess", "ta_whisper"}
                 /\ bg'[id].exc # None)
                   => /\ bg'[id].pc \in {"ta_except", "ta_finally"}
                      /\ bg'[id].result = None
             /\ (bg[id].pc = "ta_finally" /\ bg[id].exc # None
                 /\ bg'[id].pc # bg[id].pc)
                   => bg'[id].pc = "ta_except"
             /\ (bg[id].pc = "ta_except" /\ bg'[id].pc # bg[id].pc)
                   => (bg'[id].pc = "except" /\ bg'[id].exc # None
                       /\ bg'[id].result = None)
             /\ (bg[id].result = None /\ bg'[id].result # None)
                   => bg[id].pc = "ta_assign"]_vars

C22_Witness ==
    \E a, b \in DOMAIN bg :
        /\ bg[a].pc = "complete"
        /\ bg[b].pc = "raised" \/ bg[b].pc = "done"
        /\ b \in DOMAIN active_tasks
        /\ active_tasks[b].status = "failed"
        /\ active_tasks[b].error = Some(<<"Transcription failed", "...">>)
        /\ active_tasks[b].result = None

\* C23: the alignment returns as many segments as the recognition gave, the
\* i-th with the start and the end of the i-th recognition segment and with
\* a speaker label, whatever the turns.
C23_AlignOneToOne ==
    Aligned =>
        /\ DOMAIN run.transcription_segments = DOMAIN run.whisper_segments
        /\ \A i \in DOMAIN run.whisper_segments :
              /\ run.transcription_segments[i].start_time
                    = run.whisper_segments[i].start
              /\ run.transcription_segments[i].end_time
                    = run.whisper_segments[i].end
              /\ run.transcription_segments[i].speaker # None
              /\ run.transcription_segments[i].speaker[1] # << >>

C23_Witness ==
    /\ Aligned /\ HasTurns
    /\ Len(run.whisper_segments) = 2
    /\ run.whisper_segments[1].start = run.whisper_segments[1].end
    /\ run.transcription_segments[1].end_time # run.transcription_segments[2].end_time
    /\ run.transcription_segments[1].speaker # run.transcription_segments[2].speaker

\* C24: in every state in which a request can be served and a job reads
\* completed, the result file in the format the job was submitted with
\* exists and a result request in that format answers 200.
C24_CompletedHasResultFile ==
    \A id \in DOMAIN active_tasks :
        (loop = 0 /\ active_tasks[id].status = "completed" /\ has(bg, id))
        => IF Finished(id)
           THEN HasOutput(id)
           ELSE /\ <<id, bg[id].request.output_format>> \in output_dir
                /\ get_transcription_result_code(
                       id, bg[id].request.output_format) = 200

\* C25: a task id that has left the table (by delete_task, by the sweep, by
\* a failed upload) is in the table in no later state, whatever its
\* background task does after or across the removal.
C25_RemovedNeverReappears ==
    /\ [](\A id \in DOMAIN removed_by : id \notin DOMAIN active_tasks)
    /\ [][\A id \in used_ids :
             id \notin DOMAIN active_tasks => id \notin DOMAIN active_tasks']_vars

C25_Witness ==
    \E a, b \in DOMAIN removed_by :
        /\ removed_by[a] = "delete"
        /\ removed_by[b] = "sweep"
        /\ has(bg, a) /\ bg[a].pc = "raised"
        /\ has(bg, b) /\ bg[b].pc \in {"open", "write"}
        /\ a \notin DOMAIN active_tasks
        /\ b \notin DOMAIN active_tasks

\* C26: once a job has been deleted or swept with its background task not
\* yet started, transcribe_audio is never entered for it, no transcript of
\* it is built and no result file of it exists, in that state and in every
\* later one.
RemovedBeforeStart(id) ==
    /\ id \in DOMAIN removed_by
    /\ removed_by[id] \in {"delete", "sweep"}
    /\ ~has(bg, id) \/ at(id, "queued")

NeverInvoked(id) ==
    /\ ~HasOutput(id)
    /\ id \notin temp_dir
    /\ (has(bg, id) /\ ~Finished(id))
          => /\ bg[id].pc \in {"queued", "except", "finally_raise"}
             /\ bg[id].result = None

C26_RemovedPendingNeverRuns ==
    \A id \in TaskIds : [](RemovedBeforeStart(id) => []NeverInvoked(id))

C26_Witness ==
    \E id \in DOMAIN removed_by :
        /\ removed_by[id] = "delete"
        /\ at(id, "finally_raise")
        /\ bg[id].result = None
        /\ bg[id].exc = Some(<<"KeyError">>)
        /\ NeverInvoked(id)
        /\ \E other \in DOMAIN active_tasks :
              active_tasks[other].status = "completed"

C28_ProgressMonotone ==
    /\ [](\A id \in DOMAIN active_tasks :
             /\ active_tasks[id].progress \in 0..10
             /\ active_tasks[id].status = "pending"
                   => active_tasks[id].progress = 0
             /\ active_tasks[id].status = "processing"
                   => active_tasks[id].progress = 1
             /\ active_tasks[id].status = "completed"
                   => active_tasks[id].progress = 10)
    /\ [][\A id \in DOMAIN active_tasks \cap DOMAIN active_tasks' :
             active_tasks'[id].progress >= active_tasks[id].progress]_vars

C28_Witness ==
    \E a, b \in DOMAIN active_tasks :
        /\ active_tasks[a].status = "failed"
        /\ active_tasks[a].progress = 1
        /\ active_tasks[b].status = "failed"
        /\ active_tasks[b].progress = 10

\* C29: the metadata flag speaker_diarization of a returned transcript is
\* true only when the alignment labelled the segments from a non-empty list
\* of turns; it is false whenever the alignment took its no-turns path, also
\* when the diarization ran and returned no turn.
C29_FlagMeansTurnsApplied ==
    Returned => (run.result[1].metadata.speaker_diarization => HasTurns)

====
